---- MODULE Spec2Model ----
(***************************************************************************)
(* Model of the Photo Masking API (src/main.py): the two request handlers  *)
(* mask_photo_by_url and mask_photo_by_upload running as coroutines on one *)
(* event loop, the helpers they call (fetch_image_from_url, process_image, *)
(* get_random_mask, apply_mask, image_to_base64) and the float arithmetic  *)
(* apply_mask uses to size the resampled image.                            *)
(***************************************************************************)
EXTENDS Integers, Sequences, FiniteSets, TLC

-----------------------------------------------------------------------------
(* Python floats are IEEE 754 binary64.  A positive float is modelled       *)
(* exactly as [e, hi, mid, lo]: its 53-bit significand is                    *)
(* hi * 2^35 + mid * 2^17 + lo with 2^17 <= hi < 2^18, mid < 2^18 and        *)
(* lo < 2^17, and its value is significand * 2^(e - 52).  The significand    *)
(* is cut in three limbs because it does not fit the model checker's         *)
(* integers.  Every operation rounds to nearest, ties to even, as the        *)
(* hardware does.  The integers that enter are below 2^11 and the floats     *)
(* that are converted to integers below 2^17.                                *)

\* Widths of the limbs: 18 + 18 + 17 = 53, the significand of a binary64 float.
HiBits == 18

MidBits == 18

LoBits == 17

\* Largest exponent magnitude the dimensions of the model can produce.
ExpRange == 12

\* The float of significand limbs hi, mid, lo after adding carry (0 or 1) at
\* the last place.
Carry(e, hi, mid, lo, carry) ==
    LET l == lo + carry
        m == mid + l \div 2^LoBits
        h == hi + m \div 2^MidBits
    IN  IF h = 2^HiBits
        THEN [e |-> e + 1, hi |-> 2^(HiBits - 1), mid |-> 0, lo |-> 0]
        ELSE [e |-> e, hi |-> h, mid |-> m % 2^MidBits, lo |-> l % 2^LoBits]

\* Round to nearest, ties to even: the exact value has the 53 bits hi, mid,
\* lo, then the bit guard, then further digits that are non-zero iff sticky.
RoundToFloat(e, hi, mid, lo, guard, sticky) ==
    Carry(e, hi, mid, lo, IF guard = 1 /\ (sticky \/ lo % 2 = 1) THEN 1 ELSE 0)

\* The exponent of a / b: b * 2^e <= a < b * 2^(e+1).
RatioExp(a, b) ==
    CHOOSE e \in -ExpRange..ExpRange :
        IF e >= 0 THEN b * 2^e <= a /\ a < b * 2^(e + 1)
                  ELSE b <= a * 2^(-e) /\ a * 2^(-e) < 2 * b

\* a / b of two positive ints (Python's true division, correctly rounded):
\* long division of n0 / d0, which lies in [1, 2), in three steps that give
\* 18 binary digits each, 54 in all: the significand and the guard bit.
TrueDiv(a, b) ==
    LET e  == RatioExp(a, b)
        n0 == IF e >= 0 THEN a ELSE a * 2^(-e)
        d0 == IF e >= 0 THEN b * 2^e ELSE b
        q1 == (n0 * 2^(HiBits - 1)) \div d0
        r1 == (n0 * 2^(HiBits - 1)) % d0
        q2 == (r1 * 2^MidBits) \div d0
        r2 == (r1 * 2^MidBits) % d0
        q3 == (r2 * 2^(LoBits + 1)) \div d0
        r3 == (r2 * 2^(LoBits + 1)) % d0
    IN  RoundToFloat(e, q1, q2, q3 \div 2, q3 % 2, r3 # 0)

\* The number of bits of n (0 for 0).
BitLen(n) == IF n = 0 THEN 0 ELSE CHOOSE k \in 1..30 : 2^(k - 1) <= n /\ n < 2^k

\* n * x for a positive int n and a float x (the int converts exactly): the
\* significand is multiplied limb by limb, lowest first, and the product,
\* s bits longer than a significand, is rounded to 53 bits.
MulInt(n, x) ==
    LET t0 == x.lo * n
        t1 == x.mid * n + t0 \div 2^LoBits
        t2 == x.hi * n + t1 \div 2^MidBits
        p0 == t0 % 2^LoBits
        p1 == t1 % 2^MidBits
        s  == BitLen(t2) - HiBits
    IN  IF s = 0 THEN [e |-> x.e, hi |-> t2, mid |-> p1, lo |-> p0]
        ELSE RoundToFloat(x.e + s,
                          t2 \div 2^s,
                          p1 \div 2^s + (t2 % 2^s) * 2^(MidBits - s),
                          p0 \div 2^s + (p1 % 2^s) * 2^(LoBits - s),
                          (p0 \div 2^(s - 1)) % 2,
                          p0 % 2^(s - 1) # 0)

FloatLess(x, y) ==
    \/ x.e < y.e
    \/ x.e = y.e /\ x.hi < y.hi
    \/ x.e = y.e /\ x.hi = y.hi /\ x.mid < y.mid
    \/ x.e = y.e /\ x.hi = y.hi /\ x.mid = y.mid /\ x.lo < y.lo

\* Python's max(x, y): y only when it is greater than x.
FloatMax(x, y) == IF FloatLess(x, y) THEN y ELSE x

\* int(x): truncation toward zero.  The integer part lies in the first limb.
Trunc(x) == IF x.e < 0 THEN 0 ELSE x.hi \div 2^(HiBits - 1 - x.e)

\* round(x): to the nearest integer, ties to even.
RoundHalfEven(x) ==
    IF x.e < -1 THEN 0
    ELSE LET unit == 2^(HiBits - 1 - x.e)
             n    == x.hi \div unit
             frac == x.hi % unit
             half == unit \div 2
             rest == frac % half # 0 \/ x.mid # 0 \/ x.lo # 0
         IN  IF frac >= half /\ (rest \/ n % 2 = 1) THEN n + 1 ELSE n

-----------------------------------------------------------------------------
(* apply_mask, lines 87-97: the cover scale and the resample and crop       *)
(* geometry.                                                                 *)

Scale(img_width, img_height, mask_width, mask_height) ==
    FloatMax(TrueDiv(mask_width, img_width), TrueDiv(mask_height, img_height))

\* Lines 90 and 91: int(img_width * scale), int(img_height * scale).
NewSize(extent, scale) == Trunc(MulInt(extent, scale))

CropLeft(new_width, mask_width) == (new_width - mask_width) \div 2

CropTop == 0

\* The crop box (left, upper, right, lower) of line 97.
CropBox(new_width, mask_width, mask_height) ==
    LET left == CropLeft(new_width, mask_width)
    IN  <<left, CropTop, left + mask_width, CropTop + mask_height>>

-----------------------------------------------------------------------------
(* Images.  An image is [mode, w, h, px]: px maps each <<x, y>> with        *)
(* 0 <= x < w, 0 <= y < h to a pixel [c, a], colour and alpha.  A decoded    *)
(* file of a format without alpha has mode "RGB" and carries a = 255 only    *)
(* after convert("RGBA").                                                    *)

Opaque == 255

Coords(w, h) == (0..(w - 1)) \X (0..(h - 1))

Transparent == [c |-> 0, a |-> 0]

\* Image.convert("RGBA"): an image without alpha gets a fully opaque one.
ConvertRGBA(image) ==
    IF image.mode = "RGBA" THEN image
    ELSE [image EXCEPT !.mode = "RGBA",
                       !.px = [p \in DOMAIN image.px |-> [c |-> image.px[p].c, a |-> Opaque]]]

\* Image.resize((w, h), LANCZOS).  The filter's interpolation is abstracted:
\* every pixel of the result takes the source pixel its centre falls in.
Resize(image, w, h) ==
    [mode |-> image.mode, w |-> w, h |-> h,
     px |-> [p \in Coords(w, h) |->
                image.px[<<(p[1] * image.w) \div w, (p[2] * image.h) \div h>>]]]

\* Image.crop(box): the box may reach outside the image; what lies outside
\* is filled with zeros.
Crop(image, box) ==
    LET w == box[3] - box[1]
        h == box[4] - box[2]
    IN  [mode |-> image.mode, w |-> w, h |-> h,
         px |-> [p \in Coords(w, h) |->
                    LET q == <<p[1] + box[1], p[2] + box[2]>>
                    IN  IF q \in DOMAIN image.px THEN image.px[q] ELSE Transparent]]

\* Image.new("RGBA", (w, h), (0, 0, 0, 0)).
NewImage(w, h) ==
    [mode |-> "RGBA", w |-> w, h |-> h, px |-> [p \in Coords(w, h) |-> Transparent]]

\* output.paste(image, (0, 0)): without a mask argument the pasted pixels
\* replace the destination's, alpha included.
Paste(output, image) ==
    [output EXCEPT !.px = [p \in DOMAIN output.px |->
                              IF p \in DOMAIN image.px THEN image.px[p] ELSE output.px[p]]]

\* mask.split()[3]: the alpha band.
AlphaBand(mask) == [w |-> mask.w, h |-> mask.h, px |-> [p \in DOMAIN mask.px |-> mask.px[p].a]]

\* A blend of the two alphas instead of a replacement.
PutAlphaBlend(output, alpha) ==
    [output EXCEPT !.px = [p \in DOMAIN output.px |->
        [c |-> output.px[p].c, a |-> (output.px[p].a * alpha.px[p]) \div Opaque]]]

\* output.putalpha(alpha): the alpha band is replaced by alpha.
PutAlpha(output, alpha) ==
    [output EXCEPT !.px = [p \in DOMAIN output.px |->
                              [c |-> output.px[p].c, a |-> alpha.px[p]]]]

\* apply_mask returning the resampled image itself, neither cropped nor
\* composited.
CompositeUncropped(image, mask) ==
    LET scale      == Scale(image.w, image.h, mask.w, mask.h)
        new_width  == NewSize(image.w, scale)
        new_height == NewSize(image.h, scale)
    IN  IF new_width <= 0 \/ new_height <= 0
        THEN [ok |-> FALSE]
        ELSE [ok |-> TRUE, image |-> Resize(image, new_width, new_height)]

\* apply_mask, lines 84-105, on a decoded RGBA image and a loaded RGBA mask.
\* PIL refuses to resize to an empty size; that ValueError is not caught.
Composite(image, mask) ==
    LET scale      == Scale(image.w, image.h, mask.w, mask.h)
        new_width  == NewSize(image.w, scale)
        new_height == NewSize(image.h, scale)
    IN  IF new_width <= 0 \/ new_height <= 0
        THEN [ok |-> FALSE]
        ELSE [ok |-> TRUE,
              image |-> PutAlpha(
                  Paste(NewImage(mask.w, mask.h),
                        Crop(Resize(image, new_width, new_height),
                             CropBox(new_width, mask.w, mask.h))),
                  AlphaBand(mask))]

-----------------------------------------------------------------------------
(* Configuration, lines 14-18, and the inputs of the model.                 *)

MAX_IMAGE_SIZE_MB == 10

\* size / (1024 * 1024) > MAX_IMAGE_SIZE_MB: the division by a power of two
\* is exact in floats, so the test is the integer comparison.
ExceedsMax(size) == size > MAX_IMAGE_SIZE_MB * 1024 * 1024

\* A header value is the sequence of its pieces between ";" characters: the
\* string "image/png; charset=binary" is <<"image/png", " charset=binary">>,
\* a string without ";" has one piece.  NoHeader is an absent header (None).
NoHeader == <<>>

ALLOWED_CONTENT_TYPES == {<<"image/jpeg">>, <<"image/png">>, <<"image/webp">>, <<"image/gif">>}

\* value.split(";")[0]
SplitFirst(value) == <<value[1]>>

\* headers.get("content-type", "")
GetOrEmpty(header) == IF header = NoHeader THEN <<"">> ELSE header

\* Lines 127-128: the URL path tests the part before the first ";".
UrlTypeAllowed(header) == SplitFirst(GetOrEmpty(header)) \in ALLOWED_CONTENT_TYPES

\* Line 219: the upload path tests the declared type as it is.
UploadTypeAllowed(content_type) == content_type \in ALLOWED_CONTENT_TYPES

\* Lines 134-137: a content-length header, when present, is compared to the limit.
DeclaredTooLarge(content_length) ==
    content_length # NoHeader /\ ExceedsMax(content_length[1])

ContentTypes ==
    {<<"image/png">>, <<"image/png", " charset=binary">>, <<"text/html">>, NoHeader}

Garbage == [mode |-> "none", w |-> 0, h |-> 0, px |-> <<>>]

MaxImgDim == 2

\* A test picture: every pixel has its own colour; with an alpha band, the
\* alpha varies from pixel to pixel.
Picture(mode, w, h) ==
    [mode |-> mode, w |-> w, h |-> h,
     px |-> [p \in Coords(w, h) |->
                IF mode = "RGBA"
                THEN [c |-> 1 + p[1] + w * p[2], a |-> 60 * (p[1] + p[2])]
                ELSE [c |-> 1 + p[1] + w * p[2]]]]

\* The pictures of every size up to the bound, with and without alpha.
Pictures ==
    {Picture(IF (w + h) % 2 = 1 THEN "RGBA" ELSE "RGB", w, h) :
        w \in 1..MaxImgDim, h \in 1..MaxImgDim}

\* A body: its length in bytes and what decoding it gives.  The bodies are
\* short ones holding each picture or no image at all, one a byte longer
\* than the limit and one of 20000000 bytes.
Bodies ==
    {[size |-> 2048, img |-> i] : i \in Pictures \cup {Garbage}}
        \cup {[size |-> n, img |-> Picture("RGB", 1, 1)] :
                  n \in {MAX_IMAGE_SIZE_MB * 1024 * 1024 + 1, 20000000}}

ContentLengths == {NoHeader, <<2048>>, <<20000000>>}

\* The content-length headers a response of the given body can carry: none,
\* the body's length, or less (the header counts the bytes on the wire, the
\* body may have been sent compressed; the client raises a request error
\* for a body shorter than declared).
LengthsFor(body) ==
    {cl \in ContentLengths : cl = NoHeader \/ cl[1] <= body.size}

NoBody == [size |-> 0, img |-> Garbage]

\* Mask files.  A file name is [prefix, stem, suffix]; the pattern
\* "mask_*.png" of line 62 matches on prefix and suffix.
MaskPixels(w, h, k) ==
    [p \in Coords(w, h) |-> [c |-> 255, a |-> (85 * (p[1] + k * p[2])) % 256]]

Mask1 ==
    [name |-> [prefix |-> "mask_", stem |-> "1", suffix |-> ".png"],
     img |-> [mode |-> "RGBA", w |-> 2, h |-> 3, px |-> MaskPixels(2, 3, 1)]]

Mask2 ==
    [name |-> [prefix |-> "mask_", stem |-> "2", suffix |-> ".png"],
     img |-> [mode |-> "RGBA", w |-> 3, h |-> 2, px |-> MaskPixels(3, 2, 2)]]

BrokenMask ==
    [name |-> [prefix |-> "mask_", stem |-> "3", suffix |-> ".png"], img |-> Garbage]

OtherFile ==
    [name |-> [prefix |-> "", stem |-> "README", suffix |-> ".md"], img |-> Garbage]

NoFile == [name |-> [prefix |-> "", stem |-> "", suffix |-> ""], img |-> Garbage]

MaskDirs == {{}, {OtherFile}, {Mask1, Mask2, BrokenMask, OtherFile}}

\* The pattern taken as "*": every file of the directory matches.
GlobAll(dir) == dir

\* MASKS_DIR.glob("mask_*.png"), line 62.
Glob(dir) == {f \in dir : f.name.prefix = "mask_" /\ f.name.suffix = ".png"}

\* Image.open(...) of a file or buffer that holds no image raises.
Decodable(img) == img.mode # "none"

\* Line 113: base64 text of the PNG encoding of the image.
image_to_base64(image) == [base64 |-> [png |-> image]]

-----------------------------------------------------------------------------
(* Stages and exceptions.  A handler segment is a list of stage outcomes    *)
(* [stage, ok, status, detail]; an exception ends the segment at the first   *)
(* stage that is not ok, and the request with it.                            *)

Step(stage, ok, status, detail) ==
    [stage |-> stage, ok |-> ok, status |-> IF ok THEN 0 ELSE status,
     detail |-> IF ok THEN "" ELSE detail]

\* Every stage of the segment runs, whatever the earlier ones raised.
RanAll(steps) == steps

\* The stages that run: up to and including the first that raises.
Ran(steps) ==
    LET bad == {i \in 1..Len(steps) : ~steps[i].ok}
    IN  IF bad = {} THEN steps
        ELSE SubSeq(steps, 1, CHOOSE i \in bad : \A j \in bad : i <= j)

Raised(ran) == ran # <<>> /\ ~ran[Len(ran)].ok

Pending == [success |-> FALSE, status |-> 0, detail |-> ""]

\* What the framework answers for an exception: the HTTPException's status
\* and detail, and 500 for any other exception.
Failure(step) == [success |-> FALSE, status |-> step.status, detail |-> step.detail]

\* Lines 159-164 and MaskResponse.
Success(mask_name, base64_data) ==
    [success |-> TRUE, status |-> 200, mask_used |-> mask_name,
     image_data |-> base64_data, content_type |-> "image/png"]

-----------------------------------------------------------------------------
(* The server: the requests of Reqs are handled by coroutines of one event  *)
(* loop.  running is the request whose coroutine occupies the loop; a        *)
(* coroutine gives the loop up only at an await (client.get, file.read) or   *)
(* when it ends.  Everything process_image calls is synchronous.             *)

VARIABLES
    masks_dir,  \* the files of MASKS_DIR
    API_KEY,    \* the configured key, "" when none is set
    pc,         \* where each request's coroutine stands
    path,       \* "url" or "upload"
    seen,       \* what the request declared and delivered
    buffer,     \* image_buffer
    mask,       \* the file get_random_mask returned
    output,     \* processed_image
    result,     \* the response
    log,        \* the stages run for the request, in order
    running,    \* the request occupying the event loop, or "none"
    gpc, gin, gout  \* apply_mask's geometry taken alone (SpecGeom)

vars == <<masks_dir, API_KEY, pc, path, seen, buffer, mask, output, result, log,
          running, gpc, gin, gout>>

svars == <<masks_dir, API_KEY, pc, path, seen, buffer, mask, output, result, log, running>>

gvars == <<gpc, gin, gout>>

Reqs == {"r1", "r2"}

NoSeen == [content_type |-> NoHeader, content_length |-> NoHeader, received |-> 0]

GeomOff ==
    /\ gpc = "off"
    /\ gin = [w |-> 1, h |-> 1, mw |-> 1, mh |-> 1]
    /\ gout = [new_width |-> 0, new_height |-> 0, box |-> <<0, 0, 0, 0>>]

Init ==
    /\ masks_dir \in MaskDirs
    /\ API_KEY \in {"", "secret"}
    /\ pc = [r \in Reqs |-> "idle"]
    /\ path = [r \in Reqs |-> "none"]
    /\ seen = [r \in Reqs |-> NoSeen]
    /\ buffer = [r \in Reqs |-> NoBody]
    /\ mask = [r \in Reqs |-> NoFile]
    /\ output = [r \in Reqs |-> Garbage]
    /\ result = [r \in Reqs |-> Pending]
    /\ log = [r \in Reqs |-> <<>>]
    /\ running = "none"
    /\ GeomOff

\* Lines 22-29.
verify_api_key(x_api_key) == API_KEY = "" \/ x_api_key = API_KEY

\* The request ends with the exception its last stage raised.
Abort(r, ran) ==
    /\ pc' = [pc EXCEPT ![r] = "done"]
    /\ result' = [result EXCEPT ![r] = Failure(ran[Len(ran)])]
    /\ log' = [log EXCEPT ![r] = @ \o ran]
    /\ running' = "none"

\* A request arrives; the framework resolves Depends(verify_api_key) and
\* schedules the handler.
Arrive(r) ==
    /\ pc[r] = "idle"
    /\ running = "none"
    /\ \E p \in {"url", "upload"}, x_api_key \in {"secret", "wrong"} :
         LET ran == Ran(<<Step("auth", verify_api_key(x_api_key), 401, "Invalid API key")>>)
         IN  /\ path' = [path EXCEPT ![r] = p]
             /\ IF Raised(ran)
                THEN Abort(r, ran)
                ELSE /\ pc' = [pc EXCEPT ![r] = IF p = "url" THEN "url_start" ELSE "upload_start"]
                     /\ log' = [log EXCEPT ![r] = @ \o ran]
                     /\ UNCHANGED <<result, running>>
    /\ UNCHANGED <<masks_dir, API_KEY, seen, buffer, mask, output, gvars>>

\* mask_photo_by_url up to the await of line 120: the GET is sent.
UrlSend(r) ==
    /\ pc[r] = "url_start"
    /\ running = "none"
    /\ pc' = [pc EXCEPT ![r] = "await_get"]
    /\ UNCHANGED <<masks_dir, API_KEY, path, seen, buffer, mask, output, result, log,
                   running, gvars>>

\* Lines 120-150 and 201-202: client.get returns, or raises, once the whole
\* response, body included, has been read (the request is not streamed);
\* then the status, the content type and the declared length are checked
\* and process_image is entered without giving the loop up.
UrlResume(r) ==
    /\ pc[r] = "await_get"
    /\ running = "none"
    /\ \E outcome \in {"timeout", "request_error", "status_error", "response"},
          ct \in ContentTypes, body \in Bodies :
       \E cl \in LengthsFor(body) :
         LET got == outcome \in {"status_error", "response"}
             ran == Ran(<<
                 Step("download", got, 400,
                      IF outcome = "timeout" THEN "Request timed out" ELSE "Request failed"),
                 Step("raise_for_status", outcome # "status_error", 400, "HTTP error"),
                 Step("validate_type", UrlTypeAllowed(ct), 400, "Unsupported content type"),
                 Step("validate_size", ~DeclaredTooLarge(cl), 413,
                      "Image exceeds maximum size")>>)
         IN  /\ seen' = [seen EXCEPT ![r] =
                    IF outcome = "response"
                    THEN [content_type |-> ct, content_length |-> cl,
                          received |-> body.size]
                    ELSE NoSeen]
             /\ IF Raised(ran)
                THEN Abort(r, ran) /\ UNCHANGED buffer
                ELSE /\ pc' = [pc EXCEPT ![r] = "process_image"]
                     /\ buffer' = [buffer EXCEPT ![r] = body]
                     /\ log' = [log EXCEPT ![r] = @ \o ran]
                     /\ running' = r
                     /\ UNCHANGED result
    /\ UNCHANGED <<masks_dir, API_KEY, path, mask, output, gvars>>

\* mask_photo_by_upload, lines 219-225: the declared type is checked, then
\* the coroutine awaits file.read().
UploadStart(r) ==
    /\ pc[r] = "upload_start"
    /\ running = "none"
    /\ \E ct \in ContentTypes :
         LET ran == Ran(<<Step("validate_type", UploadTypeAllowed(ct), 400,
                              "Unsupported file type")>>)
         IN  /\ seen' = [seen EXCEPT ![r].content_type = ct]
             /\ IF Raised(ran)
                THEN Abort(r, ran)
                ELSE /\ pc' = [pc EXCEPT ![r] = "await_read"]
                     /\ log' = [log EXCEPT ![r] = @ \o ran]
                     /\ UNCHANGED <<result, running>>
    /\ UNCHANGED <<masks_dir, API_KEY, path, buffer, mask, output, gvars>>

\* Lines 225-234: the body is read, its length checked, and process_image
\* entered without giving the loop up.
UploadResume(r) ==
    /\ pc[r] = "await_read"
    /\ running = "none"
    /\ \E body \in Bodies :
         LET ran == Ran(<<
                 Step("read_body", TRUE, 0, ""),
                 Step("validate_size", ~ExceedsMax(body.size), 413,
                      "Image exceeds maximum size")>>)
         IN  /\ seen' = [seen EXCEPT ![r].received = body.size]
             /\ IF Raised(ran)
                THEN Abort(r, ran) /\ UNCHANGED buffer
                ELSE /\ pc' = [pc EXCEPT ![r] = "process_image"]
                     /\ buffer' = [buffer EXCEPT ![r] = body]
                     /\ log' = [log EXCEPT ![r] = @ \o ran]
                     /\ running' = r
                     /\ UNCHANGED result
    /\ UNCHANGED <<masks_dir, API_KEY, path, mask, output, gvars>>

\* get_random_mask, lines 60-66, called at line 155.
GetRandomMask(r) ==
    /\ pc[r] = "process_image"
    /\ running = r
    /\ LET mask_files == Glob(masks_dir)
           ran == Ran(<<Step("pick_mask", mask_files # {}, 500, "No mask files found")>>)
       IN  IF Raised(ran)
           THEN Abort(r, ran) /\ UNCHANGED mask
           ELSE /\ \E mask_path \in mask_files : mask' = [mask EXCEPT ![r] = mask_path]
                /\ pc' = [pc EXCEPT ![r] = "apply_mask"]
                /\ log' = [log EXCEPT ![r] = @ \o ran]
                /\ UNCHANGED <<result, running>>
    /\ UNCHANGED <<masks_dir, API_KEY, path, seen, buffer, output, gvars>>

\* apply_mask, lines 69-105, called at line 156.  A buffer that does not
\* decode raises the 400 of line 82; a mask file that does not decode and a
\* resize PIL refuses raise exceptions nobody catches (500).
ApplyMask(r) ==
    /\ pc[r] = "apply_mask"
    /\ running = r
    /\ LET image_ok == Decodable(buffer[r].img)
           mask_ok  == Decodable(mask[r].img)
           done     == Composite(ConvertRGBA(buffer[r].img), ConvertRGBA(mask[r].img))
           ran == Ran(<<
               Step("decode", image_ok, 400, "Cannot open image"),
               Step("load_mask", mask_ok, 500, "Internal Server Error"),
               Step("transform", image_ok /\ mask_ok /\ done.ok, 500,
                    "Internal Server Error")>>)
       IN  IF Raised(ran)
           THEN Abort(r, ran) /\ UNCHANGED output
           ELSE /\ output' = [output EXCEPT ![r] = done.image]
                /\ pc' = [pc EXCEPT ![r] = "image_to_base64"]
                /\ log' = [log EXCEPT ![r] = @ \o ran]
                /\ UNCHANGED <<result, running>>
    /\ UNCHANGED <<masks_dir, API_KEY, path, seen, buffer, mask, gvars>>

\* Lines 157-164 and 203: the image is encoded and the response returned.
Respond(r) ==
    /\ pc[r] = "image_to_base64"
    /\ running = r
    /\ LET ran == Ran(<<Step("encode", TRUE, 0, "")>>)
       IN  /\ result' = [result EXCEPT ![r] =
                  Success(mask[r].name, image_to_base64(output[r]))]
           /\ log' = [log EXCEPT ![r] = @ \o ran]
    /\ pc' = [pc EXCEPT ![r] = "done"]
    /\ running' = "none"
    /\ UNCHANGED <<masks_dir, API_KEY, path, seen, buffer, mask, output, gvars>>

\* The steps of request r's coroutine.
Handler(r) ==
    \/ UrlSend(r)
    \/ UrlResume(r)
    \/ UploadStart(r)
    \/ UploadResume(r)
    \/ GetRandomMask(r)
    \/ ApplyMask(r)
    \/ Respond(r)

Next == \E r \in Reqs : Arrive(r) \/ Handler(r)

Spec == Init /\ [][Next]_vars

-----------------------------------------------------------------------------
(* apply_mask's geometry alone, over every size up to the bounds.           *)

MaxDim == 15

\* The sizes tried: every source and mask size up to the bound, and the
\* 800 x 600 source under the 512 x 768 mask.
GeomInputs ==
    [w : 1..MaxDim, h : 1..MaxDim, mw : 1..MaxDim, mh : 1..MaxDim]
        \cup {[w |-> 800, h |-> 600, mw |-> 512, mh |-> 768]}

ServerOff ==
    /\ masks_dir = {}
    /\ API_KEY = ""
    /\ pc = [r \in Reqs |-> "off"]
    /\ path = [r \in Reqs |-> "none"]
    /\ seen = [r \in Reqs |-> NoSeen]
    /\ buffer = [r \in Reqs |-> NoBody]
    /\ mask = [r \in Reqs |-> NoFile]
    /\ output = [r \in Reqs |-> Garbage]
    /\ result = [r \in Reqs |-> Pending]
    /\ log = [r \in Reqs |-> <<>>]
    /\ running = "none"

GeomInit ==
    /\ gpc = "start"
    /\ gin \in GeomInputs
    /\ gout = [new_width |-> 0, new_height |-> 0, box |-> <<0, 0, 0, 0>>]
    /\ ServerOff

\* Lines 88-92.
GeomResize ==
    /\ gpc = "start"
    /\ gpc' = "resized"
    /\ LET scale == Scale(gin.w, gin.h, gin.mw, gin.mh)
       IN  gout' = [gout EXCEPT !.new_width = NewSize(gin.w, scale),
                                !.new_height = NewSize(gin.h, scale)]
    /\ UNCHANGED <<gin, svars>>

\* Lines 95-97.
GeomCrop ==
    /\ gpc = "resized"
    /\ gpc' = "cropped"
    /\ gout' = [gout EXCEPT !.box = CropBox(gout.new_width, gin.mw, gin.mh)]
    /\ UNCHANGED <<gin, svars>>

GeomNext == GeomResize \/ GeomCrop

SpecGeom == GeomInit /\ [][GeomNext]_vars

-----------------------------------------------------------------------------
(* Properties.                                                              *)

\* The picture a response carries: the base64 text decoded, then the PNG.
Delivered(r) == result[r].image_data.base64.png

Stages(r) == [i \in 1..Len(log[r]) |-> log[r][i].stage]

HasStage(r, stage) == \E i \in 1..Len(log[r]) : log[r][i].stage = stage

StageOk(r, stage) == \E i \in 1..Len(log[r]) : log[r][i].stage = stage /\ log[r][i].ok

\* The file name matches "mask_*.png".
IsMaskName(name) == name.prefix = "mask_" /\ name.suffix = ".png"

NoMaskFailure == [success |-> FALSE, status |-> 500, detail |-> "No mask files found"]

\* C1: every success response carries an image whose width and height are
\* those of the mask get_random_mask chose for the request.
C1_OutputHasMaskSize ==
    \A r \in Reqs :
        result[r].success =>
            /\ Delivered(r).w = mask[r].img.w
            /\ Delivered(r).h = mask[r].img.h
            /\ DOMAIN Delivered(r).px = Coords(mask[r].img.w, mask[r].img.h)

\* C1 witness: a URL request and an upload both succeeded, under masks of
\* different sizes, one of them from a source that the resampling made wider
\* than the mask.
C1_Witness ==
    \E r, q \in Reqs :
        /\ path[r] = "url" /\ result[r].success /\ mask[r] = Mask1
        /\ buffer[r].img.w = 2 /\ buffer[r].img.h = 1
        /\ path[q] = "upload" /\ result[q].success /\ mask[q] = Mask2

\* C2: in every success response the alpha of each pixel is the alpha of the
\* same pixel of the chosen mask, whatever the source's alpha and the crop,
\* and mask_used names that mask, a file of the mask directory.
C2_OutputAlphaIsMaskAlpha ==
    \A r \in Reqs :
        result[r].success =>
            /\ \A p \in Coords(mask[r].img.w, mask[r].img.h) :
                   Delivered(r).px[p].a = mask[r].img.px[p].a
            /\ result[r].mask_used = mask[r].name
            /\ \A f \in masks_dir : f.name = result[r].mask_used => f = mask[r]
            /\ mask[r] \in masks_dir

\* C2 witness: a success whose source had an alpha band of its own, different
\* from the mask's, and was cropped away from the left edge.
C2_Witness ==
    \E r \in Reqs :
        /\ result[r].success
        /\ buffer[r].img.mode = "RGBA"
        /\ mask[r] = Mask1
        /\ CropLeft(NewSize(buffer[r].img.w, Scale(buffer[r].img.w, buffer[r].img.h, 2, 3)), 2) > 0
        /\ \E p \in DOMAIN buffer[r].img.px :
               buffer[r].img.px[p].a # mask[r].img.px[<<0, 0>>].a

\* C3 (as claimed): on the URL path a response body longer than the limit
\* never passes the size check: the request does not succeed, and once its
\* content type was accepted it ends with 413.
C3_OversizeBodyRejected ==
    \A r \in Reqs :
        (path[r] = "url" /\ ExceedsMax(seen[r].received)) =>
            /\ ~StageOk(r, "validate_size")
            /\ ~result[r].success
            /\ (pc[r] = "done" /\ StageOk(r, "validate_type")) => result[r].status = 413

\* C4 (as claimed): on the URL path a response of an allowed type whose
\* content-length declares more than the limit is rejected, and its body is
\* not downloaded before the rejection.
C4_DeclaredOversizeNotDownloaded ==
    \A r \in Reqs :
        (/\ path[r] = "url"
         /\ UrlTypeAllowed(seen[r].content_type)
         /\ DeclaredTooLarge(seen[r].content_length)) =>
            /\ ~result[r].success
            /\ ~StageOk(r, "download")

\* C5 (as claimed): with no file matching the mask pattern, a request that
\* nothing else stops fails with the no-masks 500 error, and the request has
\* then neither fetched a URL, nor read an upload, nor decoded an image.
C5_NoMasksFailsBeforeAcquisition ==
    (\A f \in masks_dir : ~IsMaskName(f.name)) =>
        \A r \in Reqs :
            /\ (pc[r] = "done" /\ StageOk(r, "validate_size")) => result[r] = NoMaskFailure
            /\ result[r] = NoMaskFailure =>
                   /\ ~HasStage(r, "download")
                   /\ ~HasStage(r, "read_body")
                   /\ ~HasStage(r, "decode")

\* C5 (amended): with no file matching the mask pattern, no request succeeds
\* and nothing is decoded; a request that passed authentication, acquisition
\* and the type and size checks ends with the no-masks 500 error, raised
\* after the acquisition and before any decoding.
C5_NoMasksFailsBeforeDecoding ==
    (\A f \in masks_dir : ~IsMaskName(f.name)) =>
        \A r \in Reqs :
            /\ ~result[r].success
            /\ ~HasStage(r, "decode") /\ ~HasStage(r, "load_mask")
            /\ ~HasStage(r, "transform") /\ ~HasStage(r, "encode")
            /\ (pc[r] = "done" /\ StageOk(r, "validate_size")) =>
                   /\ result[r] = NoMaskFailure
                   /\ HasStage(r, "pick_mask")
            /\ HasStage(r, "pick_mask") =>
                   /\ ~StageOk(r, "pick_mask")
                   /\ StageOk(r, "download") \/ StageOk(r, "read_body")

\* C5 witness: in a directory that holds a file, none matching the pattern,
\* a URL request and an upload both ended with the no-masks error.
C5_Witness ==
    /\ masks_dir = {OtherFile}
    /\ \E r, q \in Reqs :
           /\ path[r] = "url" /\ result[r] = NoMaskFailure
           /\ path[q] = "upload" /\ result[q] = NoMaskFailure

UrlPipeline ==
    <<"auth", "download", "raise_for_status", "validate_type", "validate_size",
      "pick_mask", "decode", "load_mask", "transform", "encode">>

UploadPipeline ==
    <<"auth", "validate_type", "read_body", "validate_size",
      "pick_mask", "decode", "load_mask", "transform", "encode">>

\* C6: a stage that fails is the last stage the request runs and the request
\* ends in a failure without image data; a success response is given only
\* after every stage of the request's pipeline ran and succeeded.
C6_FailureShortCircuits ==
    \A r \in Reqs :
        /\ \A i \in 1..(Len(log[r]) - 1) : log[r][i].ok
        /\ (\E i \in 1..Len(log[r]) : ~log[r][i].ok) =>
               /\ pc[r] = "done"
               /\ ~result[r].success
               /\ result[r].status \in {400, 401, 413, 500}
               /\ "image_data" \notin DOMAIN result[r]
               /\ running # r
        /\ result[r].success =>
               /\ \A i \in 1..Len(log[r]) : log[r][i].ok
               /\ Stages(r) = IF path[r] = "url" THEN UrlPipeline ELSE UploadPipeline
        /\ (pc[r] = "done" /\ ~result[r].success) => Raised(log[r])

\* C6 witness: one request succeeded and another failed in the middle of its
\* pipeline, at the decoding of an acquired body.
C6_Witness ==
    \E r, q \in Reqs :
        /\ result[r].success
        /\ pc[q] = "done" /\ ~result[q].success
        /\ HasStage(q, "decode") /\ ~StageOk(q, "decode")

\* C7 (as claimed): an upload and a URL request that declare the same content
\* type get the same verdict of the type check, and the same status when it
\* rejects.
C7_SameTypeVerdict ==
    \A r, q \in Reqs :
        (/\ path[r] = "upload" /\ path[q] = "url"
         /\ HasStage(r, "validate_type") /\ HasStage(q, "validate_type")
         /\ seen[r].content_type = seen[q].content_type) =>
            /\ StageOk(r, "validate_type") <=> StageOk(q, "validate_type")
            /\ ~StageOk(r, "validate_type") => result[r].status = result[q].status

\* C8 (as claimed): the resampled size covers the mask, new_w >= mw and
\* new_h >= mh, so the crop box lies inside the resampled image.
C8_CoverFit ==
    /\ gpc \in {"resized", "cropped"} =>
           gout.new_width >= gin.mw /\ gout.new_height >= gin.mh
    /\ gpc = "cropped" =>
           /\ 0 <= gout.box[1] /\ gout.box[3] <= gout.new_width
           /\ 0 <= gout.box[2] /\ gout.box[4] <= gout.new_height

\* C9 (as claimed): while one request runs its transform or its encoding,
\* another request in flight can still take a step.
C9_TransformDoesNotBlock ==
    \A r, q \in Reqs :
        (/\ r # q
         /\ pc[r] \in {"apply_mask", "image_to_base64"}
         /\ pc[q] \in {"url_start", "await_get", "upload_start", "await_read"}) =>
            ENABLED Handler(q)

\* C10 (as claimed): the source is resampled to round(w * scale) by
\* round(h * scale), rounded to nearest, and cropped at
\* left = (new_w - mask_w) // 2, top = 0; 800 x 600 under 512 x 768 gives
\* 1024 x 768 and the origin (256, 0).
C10_ResampleRounds ==
    LET scale == Scale(gin.w, gin.h, gin.mw, gin.mh)
    IN  /\ gpc \in {"resized", "cropped"} =>
               /\ gout.new_width = RoundHalfEven(MulInt(gin.w, scale))
               /\ gout.new_height = RoundHalfEven(MulInt(gin.h, scale))
        /\ gpc = "cropped" =>
               /\ gout.box[1] = (gout.new_width - gin.mw) \div 2
               /\ gout.box[2] = 0
        /\ (gpc = "cropped" /\ gin = [w |-> 800, h |-> 600, mw |-> 512, mh |-> 768]) =>
               gout = [new_width |-> 1024, new_height |-> 768,
                       box |-> <<256, 0, 768, 768>>]

====
